---- MODULE Spec2Model ----
(***************************************************************************)
(* Model of the Minesweeper knowledge-based agent of                       *)
(* TP02/minesweeper/minesweeper.py: the classes Sentence and MinesweeperAI *)
(* and the part of the board (Minesweeper.nearby_mines) that produces the  *)
(* observations the agent receives.                                        *)
(*                                                                         *)
(* A Sentence object is a record [cells, count].  `knowledge` is the       *)
(* Python list of Sentence objects, a sequence; an object's identity is    *)
(* its position in the list.  The two nested `for` loops of step 5 of      *)
(* add_knowledge iterate over the list while it is appended to and removed *)
(* from, so they are modelled with the list iterators' indices (it1, it2), *)
(* one inner iteration per step.                                           *)
(***************************************************************************)
EXTENDS Integers, Sequences, FiniteSets, TLC

VARIABLES
    height,      \* MinesweeperAI.height
    width,       \* MinesweeperAI.width
    board,       \* Minesweeper.mines: the cells that really hold a mine
    moves_made,  \* MinesweeperAI.moves_made
    mines,       \* MinesweeperAI.mines
    safes,       \* MinesweeperAI.safes
    knowledge,   \* MinesweeperAI.knowledge
    pc,          \* position inside the running call
    it1,         \* index the outer list iterator of step 5 reads next
    it2,         \* index the inner list iterator of step 5 reads next
    s1,          \* the object bound to `sentence1`
    s1pos,       \* where that object now sits in `knowledge` (0: removed)
    frame,       \* the running add_knowledge call: its arguments `cell` and
                 \* `count` and the Sentence it built at line 210
    ret          \* what the last query (make_safe_move, make_random_move,
                 \* known_mines) returned to its caller

vars == <<height, width, board, moves_made, mines, safes, knowledge,
          pc, it1, it2, s1, s1pos, frame, ret>>

\* ---------------------------------------------------------------- bounds
\* grids of at most MaxArea cells, with at most MaxMines mines
MaxArea == 6
MaxMines == 2
\* cap on the length of `knowledge`
MaxKnowledge == 40
\* observations with untrusted counts are made while `knowledge` has fewer
\* than MaxUntrusted entries
MaxUntrusted == 2
\* grids of at most MaxMarkArea cells where the marking methods are called
\* on arbitrary agent states, and where untrusted counts are observed
MaxMarkArea == 3

\* ----------------------------------------------------------------- board
Cells(h, w) == (0 .. h - 1) \X (0 .. w - 1)

\* the 3x3 window around a cell, the cell itself left out, clipped to the grid
Neighbours(cell, h, w) ==
    { n \in Cells(h, w) :
        /\ n # cell
        /\ n[1] \in (cell[1] - 1) .. (cell[1] + 1)
        /\ n[2] \in (cell[2] - 1) .. (cell[2] + 1) }

nearby_mines(cell, h, w, b) == Cardinality(Neighbours(cell, h, w) \cap b)

\* -------------------------------------------------------------- Sentence
Sentence(cells, count) == [cells |-> cells, count |-> count]

None == [some |-> FALSE, val |-> {}]
Some(S) == [some |-> TRUE, val |-> S]
\* Python truth value of `None` or of a set
Truthy(r) == r.some /\ r.val # {}

\* mutant: `>=` in place of `==`
known_mines_AtLeast(s) ==
    IF s.count >= Cardinality(s.cells) THEN Some(s.cells) ELSE None

known_mines(s) ==
    IF s.count = Cardinality(s.cells) THEN Some(s.cells) ELSE None

known_safes(s) ==
    IF s.count = 0 THEN Some(s.cells) ELSE None

\* mutant: the cell is counted off but stays in the sentence
Sentence_mark_mine_KeepCell(s, cell) ==
    IF cell \in s.cells
    THEN Sentence(s.cells, s.count - 1)
    ELSE s

\* mutant: the count is not decremented
Sentence_mark_mine_NoDecrement(s, cell) ==
    IF cell \in s.cells
    THEN Sentence(s.cells \ {cell}, s.count)
    ELSE s

Sentence_mark_mine(s, cell) ==
    IF cell \in s.cells
    THEN Sentence(s.cells \ {cell}, s.count - 1)
    ELSE s

\* mutant: the count is decremented as in mark_mine
Sentence_mark_safe_Decrement(s, cell) ==
    IF cell \in s.cells
    THEN Sentence(s.cells \ {cell}, s.count - 1)
    ELSE s

Sentence_mark_safe(s, cell) ==
    IF cell \in s.cells
    THEN Sentence(s.cells \ {cell}, s.count)
    ELSE s

\* --------------------------------------------------------- MinesweeperAI
\* no add_knowledge call is running
NoFrame == [cell |-> <<0, 0>>, count |-> 0, new |-> Sentence({}, 0)]

\* no query has returned since the last add_knowledge call
NoReturn == [op |-> "", some |-> FALSE, val |-> {}]

\* the value r (None or Some(..)) that the method op returned
Return(op, r) == [op |-> op, some |-> r.some, val |-> r.val]

\* The agent's part that the marking methods touch.
Agent(m, s, k) == [mines |-> m, safes |-> s, knowledge |-> k]

\* mutant: the sentences drop the cell without counting one mine less
mark_mine_AsSafe(a, cell) ==
    Agent(a.mines \cup {cell}, a.safes,
          [n \in 1 .. Len(a.knowledge) |-> Sentence_mark_safe(a.knowledge[n], cell)])

\* mutant: `self.mines = {cell}` in place of `self.mines.add(cell)`
mark_mine_Assign(a, cell) ==
    Agent({cell}, a.safes,
          [n \in 1 .. Len(a.knowledge) |-> Sentence_mark_mine(a.knowledge[n], cell)])

mark_mine(a, cell) ==
    Agent(a.mines \cup {cell}, a.safes,
          [n \in 1 .. Len(a.knowledge) |-> Sentence_mark_mine(a.knowledge[n], cell)])

\* mutant: the cell is not added to `safes`
mark_safe_NoAdd(a, cell) ==
    Agent(a.mines, a.safes,
          [n \in 1 .. Len(a.knowledge) |-> Sentence_mark_safe(a.knowledge[n], cell)])

mark_safe(a, cell) ==
    Agent(a.mines, a.safes \cup {cell},
          [n \in 1 .. Len(a.knowledge) |-> Sentence_mark_safe(a.knowledge[n], cell)])

\* `for safe in safes.copy(): self.mark_safe(safe)`
RECURSIVE MarkAllSafe(_, _)
MarkAllSafe(a, S) ==
    IF S = {} THEN a
    ELSE LET c == CHOOSE x \in S : TRUE
         IN  MarkAllSafe(mark_safe(a, c), S \ {c})

\* `for mine in mines.copy(): self.mark_mine(mine)`
RECURSIVE MarkAllMines(_, _)
MarkAllMines(a, S) ==
    IF S = {} THEN a
    ELSE LET c == CHOOSE x \in S : TRUE
         IN  MarkAllMines(mark_mine(a, c), S \ {c})

\* mutant: step 4 marks the safe cells only
ConcludeAt_SafesOnly(a, n) ==
    LET ks == known_safes(a.knowledge[n])
    IN  IF Truthy(ks) THEN MarkAllSafe(a, ks.val) ELSE a

\* One iteration of the loop of step 4 on the sentence at index n.
ConcludeAt(a, n) ==
    LET ks == known_safes(a.knowledge[n])
        a1 == IF Truthy(ks) THEN MarkAllSafe(a, ks.val) ELSE a
        km == known_mines(a1.knowledge[n])
    IN  IF Truthy(km) THEN MarkAllMines(a1, km.val) ELSE a1

\* mutant: the pass stops before the last sentence, the one just appended
RECURSIVE Conclude_SkipLast(_, _)
Conclude_SkipLast(a, n) ==
    IF n >= Len(a.knowledge) THEN a
    ELSE Conclude_SkipLast(ConcludeAt(a, n), n + 1)

\* Step 4: one pass over `knowledge`, from index n on.
RECURSIVE Conclude(_, _)
Conclude(a, n) ==
    IF n > Len(a.knowledge) THEN a
    ELSE Conclude(ConcludeAt(a, n), n + 1)

\* mutant: `else` in place of `elif (i, j) in self.mines`
NewSentence_DiscountAll(cell, count, h, w, mm, m) ==
    LET nb == Neighbours(cell, h, w)
    IN  Sentence({ n \in nb : n \notin mm /\ n \notin m },
                 count - Cardinality({ n \in nb : ~(n \notin mm /\ n \notin m) }))

\* mutant: the known mines among the neighbours are not taken off the count
NewSentence_NoDiscount(cell, count, h, w, mm, m) ==
    Sentence({ n \in Neighbours(cell, h, w) : n \notin mm /\ n \notin m }, count)

\* Step 3: the sentence built from the neighbours of the observed cell.
NewSentence(cell, count, h, w, mm, m) ==
    LET nb == Neighbours(cell, h, w)
    IN  Sentence({ n \in nb : n \notin mm /\ n \notin m },
                 count - Cardinality({ n \in nb : ~(n \notin mm /\ n \notin m) /\ n \in m }))

\* Steps 1 to 4 of add_knowledge.
Observe(cell, count) ==
    LET mm == moves_made \cup {cell}
        a2 == mark_safe(Agent(mines, safes, knowledge), cell)
        a3 == Agent(a2.mines, a2.safes,
                    Append(a2.knowledge, NewSentence(cell, count, height, width, mm, a2.mines)))
        a4 == Conclude(a3, 1)
    IN  /\ moves_made' = mm
        /\ mines' = a4.mines
        /\ safes' = a4.safes
        /\ knowledge' = a4.knowledge
        /\ pc' = "outer"
        /\ it1' = 1
        /\ it2' = 1
        /\ s1' = Sentence({}, 0)
        /\ s1pos' = 0
        /\ frame' = [cell |-> cell, count |-> count,
                     new |-> NewSentence(cell, count, height, width, mm, a2.mines)]
        /\ ret' = NoReturn
        /\ UNCHANGED <<height, width, board>>

\* list.remove(x): drops the first element equal to x
FirstEqual(k, x) == CHOOSE n \in 1 .. Len(k) : k[n] = x /\ \A m \in 1 .. n - 1 : k[m] # x

RemoveAt(k, n) == [m \in 1 .. Len(k) - 1 |-> IF m < n THEN k[m] ELSE k[m + 1]]

\* mutant: the `not in self.knowledge` test always succeeds
Contains_Never(k, x) == FALSE

Contains(k, x) == \E n \in 1 .. Len(k) : k[n] = x

\* mutant: every known safe cell is a candidate, played or not
make_safe_move_AnySafe(sf, mm) ==
    IF sf # {} THEN { Some(c) : c \in sf } ELSE { None }

\* What make_safe_move may return: random.choice picks any available move.
make_safe_move(sf, mm) ==
    LET available_moves == sf \ mm
    IN  IF available_moves # {}
        THEN { Some(c) : c \in available_moves }
        ELSE { None }

\* mutant: the known mines are not left out of the candidates
make_random_move_NoMines(h, w, mm, m) ==
    IF Cardinality(m) + Cardinality(mm) = h * w
    THEN { None }
    ELSE LET possible_moves == { c \in Cells(h, w) : c \notin mm }
         IN  IF possible_moves # {}
             THEN { Some(c) : c \in possible_moves }
             ELSE { None }

\* What make_random_move may return.
make_random_move(h, w, mm, m) ==
    IF Cardinality(m) + Cardinality(mm) = h * w
    THEN { None }
    ELSE LET possible_moves == { c \in Cells(h, w) : c \notin mm /\ c \notin m }
         IN  IF possible_moves # {}
             THEN { Some(c) : c \in possible_moves }
             ELSE { None }

\* The driver asks for a safe move between two observations.
MakeSafeMove ==
    /\ pc = "idle"
    /\ \E r \in make_safe_move(safes, moves_made) : ret' = Return("make_safe_move", r)
    /\ pc' = "asked"
    /\ UNCHANGED <<height, width, board, moves_made, mines, safes, knowledge,
                   it1, it2, s1, s1pos, frame>>

\* The driver asks for a random move between two observations.
MakeRandomMove ==
    /\ pc = "idle"
    /\ \E r \in make_random_move(height, width, moves_made, mines) :
          ret' = Return("make_random_move", r)
    /\ pc' = "asked"
    /\ UNCHANGED <<height, width, board, moves_made, mines, safes, knowledge,
                   it1, it2, s1, s1pos, frame>>

\* The driver has read the answer and goes on.
TakeMove ==
    /\ pc = "asked"
    /\ pc' = "idle"
    /\ ret' = NoReturn
    /\ UNCHANGED <<height, width, board, moves_made, mines, safes, knowledge,
                   it1, it2, s1, s1pos, frame>>

\* add_knowledge is called with an honest observation of a cell without a mine
AddKnowledge(cell) ==
    /\ pc = "idle"
    /\ Len(knowledge) < MaxKnowledge
    /\ cell \in Cells(height, width) \ board
    /\ Observe(cell, nearby_mines(cell, height, width, board))

\* Step 5, `for sentence1 in self.knowledge`: the iterator yields or ends.
Outer ==
    /\ pc = "outer"
    /\ IF it1 <= Len(knowledge)
       THEN /\ s1' = knowledge[it1]
            /\ s1pos' = it1
            /\ it1' = it1 + 1
            /\ it2' = 1
            /\ pc' = "inner"
            /\ UNCHANGED frame
       ELSE /\ pc' = "idle"
            /\ it1' = 1
            /\ it2' = 1
            /\ s1' = Sentence({}, 0)
            /\ s1pos' = 0
            /\ frame' = NoFrame
    /\ UNCHANGED <<height, width, board, moves_made, mines, safes, knowledge, ret>>

\* Step 5, `for sentence2 in self.knowledge`: the inner iterator ends.
InnerEnd ==
    /\ pc = "inner"
    /\ it2 > Len(knowledge)
    /\ pc' = "outer"
    /\ UNCHANGED <<height, width, board, moves_made, mines, safes, knowledge,
                   it1, it2, s1, s1pos, frame, ret>>

\* Step 5: the body of the inner loop for the sentence the iterator yields.
Inner ==
    /\ pc = "inner"
    /\ it2 <= Len(knowledge)
    /\ LET s2 == knowledge[it2]
       IN  IF s1pos = it2
           THEN \* sentence1 is sentence2
                /\ UNCHANGED <<knowledge, s1pos>>
                /\ pc' = "inner"
           ELSE IF s1 = s2
           THEN LET r == FirstEqual(knowledge, s2)
                IN  /\ knowledge' = RemoveAt(knowledge, r)
                    /\ s1pos' = IF s1pos = r THEN 0
                                ELSE IF s1pos > r THEN s1pos - 1 ELSE s1pos
                    /\ pc' = "inner"
           ELSE IF s1.cells \subseteq s2.cells
           THEN LET new_sentence == Sentence(s2.cells \ s1.cells, s2.count - s1.count)
                IN  IF Contains(knowledge, new_sentence)
                    THEN /\ UNCHANGED <<knowledge, s1pos>>
                         /\ pc' = "inner"
                    ELSE IF Len(knowledge) < MaxKnowledge
                    THEN /\ knowledge' = Append(knowledge, new_sentence)
                         /\ UNCHANGED s1pos
                         /\ pc' = "inner"
                    ELSE \* the list outgrows the model
                         /\ UNCHANGED <<knowledge, s1pos>>
                         /\ pc' = "overflow"
           ELSE /\ UNCHANGED <<knowledge, s1pos>>
                /\ pc' = "inner"
    /\ it2' = it2 + 1
    /\ UNCHANGED <<height, width, board, moves_made, mines, safes, it1, s1,
                   frame, ret>>

\* The boards played: every small grid with every placement of few mines,
\* and the 3x3 grid whose only mine is (2,2).
Grids == { g \in (1 .. MaxArea) \X (1 .. MaxArea) : g[1] * g[2] <= MaxArea }

Boards ==
    UNION { { [h |-> g[1], w |-> g[2], b |-> b] :
                b \in { x \in SUBSET Cells(g[1], g[2]) : Cardinality(x) <= MaxMines } } :
            g \in Grids }
    \cup { [h |-> 3, w |-> 3, b |-> {<<2, 2>>}] }

Init ==
    /\ \E g \in Boards : height = g.h /\ width = g.w /\ board = g.b
    /\ moves_made = {}
    /\ mines = {}
    /\ safes = {}
    /\ knowledge = << >>
    /\ pc = "idle"
    /\ it1 = 1
    /\ it2 = 1
    /\ s1 = Sentence({}, 0)
    /\ s1pos = 0
    /\ frame = NoFrame
    /\ ret = NoReturn

Next ==
    \/ \E cell \in Cells(height, width) : AddKnowledge(cell)
    \/ Outer
    \/ InnerEnd
    \/ Inner

Spec == Init /\ [][Next]_vars

\* The same, with a driver that also asks for moves between observations.
MovesNext ==
    \/ Next
    \/ MakeSafeMove
    \/ MakeRandomMove
    \/ TakeMove

SpecMoves == Init /\ [][MovesNext]_vars

\* A call that has started runs on: Python executes the loops of step 5
\* without suspension points.
SpecFair == Spec /\ WF_vars(Outer) /\ WF_vars(InnerEnd) /\ WF_vars(Inner)

\* ------------------------------------------------------ untrusted counts
\* add_knowledge is called with any in-bounds cell and any count a cell can
\* show, whatever the board holds and whatever was observed before.
AddKnowledgeAny(cell, count) ==
    /\ pc = "idle"
    /\ Len(knowledge) < MaxUntrusted
    /\ cell \in Cells(height, width)
    /\ Observe(cell, count)

AnyNext ==
    \/ \E cell \in Cells(height, width) : \E count \in 0 .. 8 : AddKnowledgeAny(cell, count)
    \/ Outer
    \/ InnerEnd
    \/ Inner

\* a fresh agent on a small grid; what the board holds plays no part
AnyInit ==
    /\ \E g \in (1 .. MaxMarkArea) \X (1 .. MaxMarkArea) :
          g[1] * g[2] <= MaxMarkArea /\ height = g[1] /\ width = g[2]
    /\ board = {}
    /\ moves_made = {}
    /\ mines = {}
    /\ safes = {}
    /\ knowledge = << >>
    /\ pc = "idle"
    /\ it1 = 1
    /\ it2 = 1
    /\ s1 = Sentence({}, 0)
    /\ s1pos = 0
    /\ frame = NoFrame
    /\ ret = NoReturn

\* a call that has started runs on, as in SpecFair
SpecAny ==
    AnyInit /\ [][AnyNext]_vars /\ WF_vars(Outer) /\ WF_vars(InnerEnd) /\ WF_vars(Inner)

\* ------------------------------------------- Sentence methods on their own
\* Any sentence with 0 <= count <= |cells| over the cells of a small grid,
\* held as the only entry of `knowledge`; one method is applied to it.
SentenceInit ==
    /\ \E g \in Grids : height = g[1] /\ width = g[2]
    /\ board = {}
    /\ moves_made = {}
    /\ mines = {}
    /\ safes = {}
    /\ \E cells \in SUBSET Cells(height, width) :
          \E count \in 0 .. Cardinality(cells) :
              knowledge = << Sentence(cells, count) >>
    /\ pc = "sentence"
    /\ it1 = 1
    /\ it2 = 1
    /\ s1 = Sentence({}, 0)
    /\ s1pos = 0
    /\ frame = NoFrame
    /\ ret = NoReturn

SentenceMarkMine(cell) ==
    /\ pc = "sentence"
    /\ knowledge' = << Sentence_mark_mine(knowledge[1], cell) >>
    /\ pc' = "mark_mine"
    /\ UNCHANGED <<height, width, board, moves_made, mines, safes, it1, it2, s1, s1pos,
                   frame, ret>>

SentenceMarkSafe(cell) ==
    /\ pc = "sentence"
    /\ knowledge' = << Sentence_mark_safe(knowledge[1], cell) >>
    /\ pc' = "mark_safe"
    /\ UNCHANGED <<height, width, board, moves_made, mines, safes, it1, it2, s1, s1pos,
                   frame, ret>>

\* known_mines is asked of the sentence, or of what a marking left of it
SentenceKnownMines ==
    /\ pc \in {"sentence", "mark_mine", "mark_safe"}
    /\ ret' = Return("known_mines", known_mines(knowledge[1]))
    /\ pc' = "known_mines"
    /\ UNCHANGED <<height, width, board, moves_made, mines, safes, knowledge,
                   it1, it2, s1, s1pos, frame>>

SentenceNext ==
    \/ \E cell \in Cells(height, width) : SentenceMarkMine(cell)
    \/ \E cell \in Cells(height, width) : SentenceMarkSafe(cell)
    \/ SentenceKnownMines

SpecSentence == SentenceInit /\ [][SentenceNext]_vars

\* ------------------------------------- the marking methods on their own
\* mark_mine and mark_safe are public: they are called, twice with the same
\* cell, on any agent state over a small grid with at most two sentences
\* and with disjoint `safes` and `mines` (the first call may make them meet).
MarkGrids ==
    { g \in (1 .. MaxMarkArea) \X (1 .. MaxMarkArea) : g[1] * g[2] <= MaxMarkArea }

SentencesOver(C) ==
    UNION { { Sentence(cs, n) : n \in 0 .. Cardinality(cs) } : cs \in SUBSET C }

MarkInit ==
    /\ \E g \in MarkGrids : height = g[1] /\ width = g[2]
    /\ board = {}
    /\ moves_made = {}
    /\ safes \in SUBSET Cells(height, width)
    /\ mines \in SUBSET (Cells(height, width) \ safes)
    /\ \/ knowledge = << >>
       \/ \E s \in SentencesOver(Cells(height, width)) : knowledge = << s >>
       \/ \E s \in SentencesOver(Cells(height, width)) :
             \E t \in SentencesOver(Cells(height, width)) : knowledge = << s, t >>
    /\ pc = "agent"
    /\ it1 = 1
    /\ it2 = 1
    /\ s1 = Sentence({}, 0)
    /\ s1pos = 0
    /\ frame = NoFrame
    /\ ret = NoReturn

\* the agent after a marking method ran, the argument kept in the frame
Marked(a, cell, at) ==
    /\ mines' = a.mines
    /\ safes' = a.safes
    /\ knowledge' = a.knowledge
    /\ frame' = [frame EXCEPT !.cell = cell]
    /\ pc' = at
    /\ UNCHANGED <<height, width, board, moves_made, it1, it2, s1, s1pos, ret>>

MarkMine(cell) ==
    /\ pc = "agent"
    /\ Marked(mark_mine(Agent(mines, safes, knowledge), cell), cell, "mark_mine")

MarkMineAgain ==
    /\ pc = "mark_mine"
    /\ Marked(mark_mine(Agent(mines, safes, knowledge), frame.cell), frame.cell,
              "mark_mine_again")

MarkSafe(cell) ==
    /\ pc = "agent"
    /\ Marked(mark_safe(Agent(mines, safes, knowledge), cell), cell, "mark_safe")

MarkSafeAgain ==
    /\ pc = "mark_safe"
    /\ Marked(mark_safe(Agent(mines, safes, knowledge), frame.cell), frame.cell,
              "mark_safe_again")

MarkNext ==
    \/ \E cell \in Cells(height, width) : MarkMine(cell)
    \/ MarkMineAgain
    \/ \E cell \in Cells(height, width) : MarkSafe(cell)
    \/ MarkSafeAgain

SpecMark == MarkInit /\ [][MarkNext]_vars

\* ---------------------------------------------------------------- claims
\* add_knowledge has returned at least once and no call is running
Returned == pc = "idle" /\ moves_made # {}

Statements == { knowledge[n] : n \in 1 .. Len(knowledge) }

\* C1 (soundness): with honest observations no cell of `safes` holds a mine
\* and every cell of `mines` holds one, so no cell make_safe_move can return
\* (a cell of safes - moves_made) holds a mine.
C1_Soundness ==
    /\ safes \cap board = {}
    /\ mines \subseteq board
    /\ \A c \in safes \ moves_made : c \notin board

C1_Witness ==
    /\ Returned
    /\ height = 3 /\ width = 3 /\ board = {<<2, 2>>}
    /\ mines = {<<2, 2>>}
    /\ safes \ moves_made # {}

\* C2 (closure to fixed point): when add_knowledge has returned, no sentence
\* with cells still yields a conclusion that was not applied: count = 0 with
\* a cell outside `safes`, or count = |cells| with a cell outside `mines`.
C2_ClosureFixedPoint ==
    Returned =>
        \A s \in Statements :
            s.cells # {} =>
                /\ (s.count = 0 => s.cells \subseteq safes)
                /\ (s.count = Cardinality(s.cells) => s.cells \subseteq mines)

\* C3 (subsumption correctness): when add_knowledge has returned and
\* `knowledge` holds {A,B,C} = 1 and {A,B} = 1, as it then did while step 5
\* of that call ran, C is in `safes`.
C3_SubsumptionSafe ==
    Returned =>
        \A s \in Statements : \A t \in Statements :
            ( /\ s.count = 1 /\ t.count = 1
              /\ Cardinality(s.cells) = 3 /\ Cardinality(t.cells) = 2
              /\ t.cells \subseteq s.cells
              /\ s.cells \cap (safes \cup mines) = {} )
            => (s.cells \ t.cells) \subseteq safes

\* C4 (purged statements): when add_knowledge has returned, no sentence of
\* `knowledge` holds a cell of `safes` or of `mines`.
C4_Purged ==
    Returned =>
        \A s \in Statements : s.cells \cap (safes \cup mines) = {}

\* C5 (no duplicates): when add_knowledge has returned, no two entries of
\* `knowledge` are equal.
C5_NoDuplicates ==
    Returned =>
        \A m \in 1 .. Len(knowledge) : \A n \in 1 .. Len(knowledge) :
            m # n => knowledge[m] # knowledge[n]

\* C6 (termination): with honest observations every add_knowledge call that
\* has started returns; the list never outgrows the model on the way.
C6_Termination == (pc # "idle") ~> (pc = "idle")

\* a call has returned whose step 5 appended derived sentences and removed
\* duplicates: everything is resolved on a board with a mine
C6_Witness ==
    /\ Returned
    /\ mines # {}
    /\ mines \cup safes = Cells(height, width)
    /\ Len(knowledge) >= 1

\* C7 (agent set invariant): `safes` and `mines` are disjoint and every cell
\* of `moves_made` is in `safes`.
C7_AgentSets ==
    /\ safes \cap mines = {}
    /\ moves_made \subseteq safes

C7_Witness ==
    /\ Returned
    /\ mines # {}
    /\ Cardinality(moves_made) >= 2
    /\ safes # moves_made

\* C8 (statement count invariant): every sentence of `knowledge` has
\* 0 <= count <= |cells|.
C8_CountInRange ==
    \A s \in Statements : 0 <= s.count /\ s.count <= Cardinality(s.cells)

\* step 5 runs on a list that holds an unresolved sentence with a mine in
\* it, after a mine was marked
C8_Witness ==
    /\ pc = "inner"
    /\ Len(knowledge) >= 3
    /\ \E s \in Statements : s.count >= 1 /\ Cardinality(s.cells) > s.count
    /\ mines # {}

\* C9 (monotonicity): no step of add_knowledge removes a cell from `safes`,
\* `mines` or `moves_made`.
C9_Monotonic ==
    [][ /\ safes \subseteq safes'
        /\ mines \subseteq mines'
        /\ moves_made \subseteq moves_made' ]_vars

C9_Witness ==
    /\ Returned
    /\ Cardinality(moves_made) >= 3
    /\ Cardinality(mines) >= 2
    /\ safes \ moves_made # {}

\* C10 as stated (mutation bound): applied to a sentence with
\* 0 <= count <= |cells|, mark_mine and mark_safe never increase |cells| and
\* never leave count > |cells|.
C10_MutationBound ==
    [][ pc = "sentence" =>
          /\ Cardinality(knowledge'[1].cells) <= Cardinality(knowledge[1].cells)
          /\ knowledge'[1].count <= Cardinality(knowledge'[1].cells) ]_vars

\* C10 as amended: neither method increases |cells|; mark_mine never leaves
\* count > |cells|; mark_safe leaves count as it was, so count <= |cells|
\* after it exactly when the cell was not in the sentence or count < |cells|
\* before.
C10_MutationBoundAmended ==
    [][ pc = "sentence" =>
          /\ Cardinality(knowledge'[1].cells) <= Cardinality(knowledge[1].cells)
          /\ pc' = "mark_mine" =>
                knowledge'[1].count <= Cardinality(knowledge'[1].cells)
          /\ pc' = "mark_safe" =>
                /\ knowledge'[1].count = knowledge[1].count
                /\ knowledge'[1].count <= Cardinality(knowledge'[1].cells)
                      <=> \/ knowledge'[1].cells = knowledge[1].cells
                          \/ knowledge[1].count < Cardinality(knowledge[1].cells) ]_vars

\* mark_safe has removed a cell from a sentence all of whose cells were mines
C10_Witness ==
    /\ pc = "mark_safe"
    /\ knowledge[1].cells # {}
    /\ knowledge[1].count = Cardinality(knowledge[1].cells) + 1
\* C11 as stated: known_mines returns `cells` when count = |cells| and
\* `cells` is not empty, and None in every other case.
C11_KnownMines ==
    pc = "known_mines" =>
        LET s == knowledge[1]
        IN  IF s.count = Cardinality(s.cells) /\ s.cells # {}
            THEN ret = Return("known_mines", Some(s.cells))
            ELSE ret = Return("known_mines", None)

\* C11 as amended: known_mines returns `cells` exactly when count = |cells|,
\* which for a sentence without cells and with count 0 is the empty set and
\* not None; it returns None in every other case.  What it returns is true
\* in Python's sense exactly when count = |cells| and `cells` is not empty.
C11_KnownMinesAmended ==
    pc = "known_mines" =>
        LET s == knowledge[1]
        IN  /\ ret.op = "known_mines"
            /\ IF s.count = Cardinality(s.cells)
               THEN ret.some /\ ret.val = s.cells
               ELSE ~ret.some
            /\ Truthy(ret) <=> (s.count = Cardinality(s.cells) /\ s.cells # {})

\* known_mines has returned the empty set for a sentence that mark_mine emptied
C11_Witness ==
    /\ pc = "known_mines"
    /\ knowledge[1] = Sentence({}, 0)
    /\ ret.some
    /\ ret.val = {}
\* C12 (make_random_move): it returns a cell of the grid that is neither in
\* `moves_made` nor in `mines` whenever there is one and None exactly when
\* there is none, in particular when |mines| + |moves_made| = height*width.
C12_RandomMove ==
    ret.op = "make_random_move" =>
        LET free == (Cells(height, width) \ moves_made) \ mines
        IN  /\ free # {} => ret.some /\ ret.val \in free
            /\ free = {} => ~ret.some
            /\ Cardinality(mines) + Cardinality(moves_made) = height * width => ~ret.some
            /\ ret.some => ret.val \notin moves_made \cup mines

\* it has returned a cell while a mine was known
C12_Witness ==
    /\ ret.op = "make_random_move"
    /\ ret.some
    /\ mines # {}
    /\ moves_made # {}

\* C13 (make_safe_move): it returns a cell of safes - moves_made when there
\* is one and None otherwise, and the step that returns leaves `moves_made`,
\* `mines`, `safes` and `knowledge` as they were.
C13_SafeMove ==
    /\ [](ret.op = "make_safe_move" =>
            LET available == safes \ moves_made
            IN  /\ available # {} => ret.some /\ ret.val \in available
                /\ available = {} => ~ret.some)
    /\ [][ret'.op = "make_safe_move" =>
            UNCHANGED <<moves_made, mines, safes, knowledge>>]_vars

\* it has returned a known safe cell that was not played yet
C13_Witness ==
    /\ ret.op = "make_safe_move"
    /\ ret.some
    /\ ret.val \in safes \ moves_made
    /\ moves_made # {}
\* C14 (idempotence): a second call of mark_mine, or of mark_safe, with the
\* same cell leaves `mines`, `safes`, `moves_made` and every sentence of
\* `knowledge` as the first call left them.
C14_Idempotent ==
    [][pc' \in {"mark_mine_again", "mark_safe_again"} =>
         UNCHANGED <<mines, safes, moves_made, knowledge>>]_vars

\* mark_mine ran twice: the cell is in `mines` and in neither of two sentences
C14_Witness ==
    /\ pc = "mark_mine_again"
    /\ frame.cell \in mines
    /\ Len(knowledge) = 2
    /\ knowledge[1].count = 0 /\ knowledge[2].count = 0
    /\ frame.cell \notin knowledge[1].cells \cup knowledge[2].cells
\* C15 (new-statement construction): the sentence a call builds in step 3
\* has as cells the in-bounds neighbours of `cell` that are neither in
\* `moves_made` (with `cell` already added) nor in `mines`, and as count the
\* given count less the number of in-bounds neighbours already in `mines`.
C15_NewSentence ==
    [][pc = "idle" /\ pc' = "outer" =>
         LET nb == Neighbours(frame'.cell, height, width)
         IN  /\ frame'.cell \in moves_made'
             /\ moves_made' = moves_made \cup {frame'.cell}
             /\ frame'.new.cells = (nb \ moves_made') \ mines
             /\ frame'.new.count = frame'.count - Cardinality(nb \cap mines)]_vars

\* a call built a sentence with cells left after taking a known mine off
\* the count and played neighbours off the cells
C15_Witness ==
    /\ pc = "outer"
    /\ it1 = 1
    /\ frame.new.count < frame.count
    /\ frame.new.cells # {}
    /\ Neighbours(frame.cell, height, width) \cap (moves_made \ {frame.cell}) # {}
\* C16 (zero-count resolution): when add_knowledge(cell, 0) returns, every
\* in-bounds neighbour of `cell` is in `safes`.
C16_ZeroCount ==
    [][pc = "outer" /\ pc' = "idle" /\ frame.count = 0 =>
         Neighbours(frame.cell, height, width) \subseteq safes']_vars

\* add_knowledge((0,0), 0) on the 3x3 grid has marked (0,1), (1,0), (1,1)
C16_Witness ==
    /\ pc = "outer"
    /\ height = 3 /\ width = 3
    /\ frame.cell = <<0, 0>>
    /\ frame.count = 0
    /\ moves_made = {<<0, 0>>}
    /\ safes = {<<0, 0>>, <<0, 1>>, <<1, 0>>, <<1, 1>>}
\* C17 (mine deduced in the scenario): on the 3x3 board whose only mine is
\* (2,2), once the eight other cells have been observed, in whatever order,
\* (2,2) is in `mines`.
C17_MineDeduced ==
    ( /\ height = 3 /\ width = 3 /\ board = {<<2, 2>>}
      /\ moves_made = Cells(3, 3) \ {<<2, 2>>} )
    => <<2, 2>> \in mines

\* the call that observed the eighth cell has returned
C17_Witness ==
    /\ Returned
    /\ height = 3 /\ width = 3 /\ board = {<<2, 2>>}
    /\ moves_made = Cells(3, 3) \ {<<2, 2>>}
    /\ <<2, 2>> \in mines
\* C18 (subsumption closure): when add_knowledge has returned, for any two
\* entries A, B of `knowledge` that are not equal and have A.cells within
\* B.cells, the sentence (B.cells - A.cells, B.count - A.count) is in
\* `knowledge`.
C18_SubsumptionClosed ==
    Returned =>
        \A m \in 1 .. Len(knowledge) : \A n \in 1 .. Len(knowledge) :
            LET A == knowledge[m]
                B == knowledge[n]
            IN  (m # n /\ A # B /\ A.cells \subseteq B.cells)
                => Contains(knowledge, Sentence(B.cells \ A.cells, B.count - A.count))
\* C19 (termination on untrusted counts): every add_knowledge call returns,
\* whatever in-bounds cell and whatever count in 0..8 it is given.
C19_TerminationAny == [](pc \in {"outer", "inner"} => <>(pc = "idle"))
\* C20 (every Statement true of the board): with honest observations, at
\* every moment, each sentence of `knowledge` has a count equal to the number
\* of mines of the board among its cells.
C20_TrueOfBoard ==
    \A s \in Statements : s.count = Cardinality(s.cells \cap board)

\* a call is in step 5, some cell is known safe, and `knowledge` holds a
\* sentence with a mine, a disjoint non-empty sentence and the sentence over
\* their union: the difference subsumption draws together with its two terms
C20_Witness ==
    /\ pc = "inner"
    /\ \E n \in 1 .. Len(knowledge) :
          /\ knowledge[n].count >= 1
          /\ \E m \in 1 .. Len(knowledge) :
                /\ m # n
                /\ knowledge[m].cells # {}
                /\ knowledge[n].cells \cap knowledge[m].cells = {}
                /\ Contains(knowledge, Sentence(knowledge[n].cells \cup knowledge[m].cells,
                                                knowledge[n].count + knowledge[m].count))
    /\ safes # {}
====
